---- MODULE Spec2Model ----
(***************************************************************************)
(* Model of ab_play.py: the A/B WAV playback tool.                         *)
(*                                                                         *)
(* Two threads share one PlaybackState guarded by state.lock:              *)
(*   - the main thread: main() -> load_wavs() -> sd.OutputStream(...) ->   *)
(*     curses.wrapper(run_ui) -> stream close;                             *)
(*   - the audio thread, on which the device invokes callback() once per   *)
(*     block while the stream is active.                                   *)
(* Every statement that touches the shared state is its own step, so that  *)
(* atomicity is a consequence of the lock and not of the step granularity. *)
(*                                                                         *)
(* A frame is modelled as one sample, an exact fraction of full scale; the  *)
(* channel count is kept as an attribute of the file.                      *)
(***************************************************************************)
EXTENDS Integers, Sequences, FiniteSets, TLC

\* ---------------------------------------------------------------- bounds
MaxLen == 3          \* longest input file, in frames
MaxRate == 2         \* highest sample rate, in frames per second
MaxBlock == 2        \* largest block the device requests from the callback

Lengths == 0..MaxLen
SampleRates == 1..MaxRate
ChannelCounts == {1, 2}   \* mono and stereo
BlockSizes == 1..MaxBlock

\* ---------------------------------------------------------------- values
Null == -1000        \* an unbound local variable
SIGINT_STATUS == 130 \* exit status of a process ended by KeyboardInterrupt
ValueError == "ValueError"

\* the keys getch() can deliver; KEY_OTHER stands for every unmapped key
KEY_Q == "q"
KEY_SPACE == "space"
KEY_TAB == "tab"
KEY_LEFT == "left"
KEY_RIGHT == "right"
KEY_H == "h"
KEY_L == "l"
KEY_OTHER == "other"
NO_KEY == "none"
Keys == {KEY_Q, KEY_SPACE, KEY_TAB, KEY_LEFT, KEY_RIGHT, KEY_H, KEY_L, KEY_OTHER}

Min(a, b) == IF a <= b THEN a ELSE b
Max(a, b) == IF a >= b THEN a ELSE b
Abs(x) == IF x < 0 THEN -x ELSE x

\* ---------------------------------------------------------------- samples
\* A sample is the fraction <<n, d>> of full scale, d > 0, in lowest terms.
\* The arithmetic is written as functions, whose arguments are evaluated once.
Fractions == Int \X Nat

GCD[a \in Nat, b \in Nat] == IF b = 0 THEN a ELSE GCD[b, a % b]

\* n / d in lowest terms
Rat[n \in Int, d \in Nat] ==
    IF n = 0 THEN <<0, 1>>
    ELSE <<n \div GCD[Abs(n), d], d \div GCD[Abs(n), d]>>

Zero == <<0, 1>>
RatAbs[x \in Fractions] == <<Abs(x[1]), x[2]>>
RatMax[x \in Fractions, y \in Fractions] ==
    IF x[1] * y[2] <= y[1] * x[2] THEN y ELSE x
RatMul[x \in Fractions, y \in Fractions] == Rat[x[1] * y[1], x[2] * y[2]]
\* x / y for y > 0
RatDiv[x \in Fractions, y \in Fractions] == Rat[x[1] * y[2], x[2] * y[1]]

\* a frame of the output block the callback has not written
Garbage == <<9999, 1>>

\* ---------------------------------------------------------------- files
\* Decoded content of the two files, in 1/1000 of full scale: sf.read() of a
\* file of n frames.  A carries positive samples, B negative ones, all
\* distinct and non-zero; the peak of B is its last frame.
ContentA == <<500, 250, 100, 50, 20, 10>>
ContentB == <<-250, -50, -25, -10, -5, -125>>
ReadA(n) == [i \in 1..n |-> Rat[ContentA[i], 1000]]
ReadB(n) == [i \in 1..n |-> Rat[ContentB[i], 1000]]

\* ---------------------------------------------------------------- numpy
\* Python's index normalisation for a slice bound i on a sequence of n rows.
SliceIndex(i, n) == IF i < 0 THEN Max(i + n, 0) ELSE Min(i, n)

\* s[a:b]
PySlice(s, a, b) ==
    LET lo == SliceIndex(a, Len(s))
        hi == SliceIndex(b, Len(s))
    IN  IF lo >= hi THEN <<>> ELSE SubSeq(s, lo + 1, hi)

\* number of rows addressed by s[a:b]
SliceLen(s, a, b) == Len(PySlice(s, a, b))

\* whether numpy accepts "dst[a:b] = src": src must have as many rows as the
\* target, or exactly one row (which is broadcast)
CanAssign(dst, a, b, src) ==
    \/ Len(src) = SliceLen(dst, a, b)
    \/ Len(src) = 1

\* dst after "dst[a:b] = src"
SliceAssign(dst, a, b, src) ==
    LET lo == SliceIndex(a, Len(dst))
        hi == SliceIndex(b, Len(dst))
    IN  [i \in 1..Len(dst) |->
            IF i > lo /\ i <= hi
            THEN (IF Len(src) = 1 THEN src[1] ELSE src[i - lo])
            ELSE dst[i]]

\* dst after "dst[a:] = 0"
ZeroFrom(dst, a) ==
    LET lo == SliceIndex(a, Len(dst))
    IN  [i \in 1..Len(dst) |-> IF i > lo THEN Zero ELSE dst[i]]

\* dst after "dst.fill(0)"
FillZero(dst) == [i \in 1..Len(dst) |-> Zero]

RECURSIVE PeakOf(_)
\* np.abs(audio).max(): the maximum of a zero-size array raises ValueError
PeakOf(s) ==
    IF s = <<>> THEN ValueError
    ELSE IF Len(s) = 1 THEN RatAbs[s[1]]
    ELSE RatMax[RatAbs[Head(s)], PeakOf(Tail(s))]

\* target: float = 0.95
TARGET == Rat[95, 100]

\* normalize_peak(audio): scale by target / peak when peak > 0; the ValueError
\* of PeakOf is not caught
normalize_peak(audio) ==
    IF audio = <<>> THEN ValueError
    ELSE LET peak == PeakOf(audio)
         IN  IF peak[1] > 0
             THEN [i \in 1..Len(audio) |-> RatMul[audio[i], RatDiv[TARGET, peak]]]
             ELSE audio

\* ---------------------------------------------------------------- state
VARIABLES
    files,      \* the command line and the two files: exists, rate, channels, frames
    buffers,    \* <<audio_a, audio_b>> as returned by load_wavs, empty before
    sr,         \* sample rate returned by load_wavs
    channels,   \* audio_a.shape[1]
    active,     \* PlaybackState.active
    paused,     \* PlaybackState.paused
    pos,        \* PlaybackState.pos
    quit,       \* PlaybackState.quit
    lock,       \* PlaybackState.lock: "free", or the thread holding it
    stream,     \* the output stream: "none", "active", "aborted", "closed"
    raised,     \* the exception callback() has raised into the stream, if any
    exitCode,   \* process exit status, Null while running
    mpc,        \* main thread: position in main() / run_ui()
    ui,         \* run_ui locals: active, paused, pos (the snapshot) and key
    cpc,        \* audio thread: position in callback()
    cb          \* callback locals: frames, outdata, buf, start, end, length

vars == <<files, buffers, sr, channels, active, paused, pos, quit, lock,
          stream, raised, exitCode, mpc, ui, cpc, cb>>

shared == <<active, paused, pos, quit>>
loaded == <<files, buffers, sr, channels>>

NoUi == [active |-> Null, paused |-> FALSE, pos |-> Null, key |-> NO_KEY]
NoCb == [frames |-> Null, outdata |-> <<>>, buf |-> Null, start |-> Null,
         end |-> Null, length |-> Null]

FileSet == [existsA : BOOLEAN, existsB : BOOLEAN,
            srA : SampleRates, srB : SampleRates,
            chA : ChannelCounts, chB : ChannelCounts,
            lenA : Lengths, lenB : Lengths,
            normalize : BOOLEAN]

\* PlaybackState() as constructed by the dataclass defaults, before main runs
Init ==
    /\ files \in FileSet
    /\ buffers = << <<>>, <<>> >>
    /\ sr = Null
    /\ channels = Null
    /\ active = 0
    /\ paused = TRUE
    /\ pos = 0
    /\ quit = FALSE
    /\ lock = "free"
    /\ stream = "none"
    /\ raised = "none"
    /\ exitCode = Null
    /\ mpc = "load"
    /\ ui = NoUi
    /\ cpc = "idle"
    /\ cb = NoCb

\* ---------------------------------------------------------------- load_wavs
\* variant: the channel counts are not compared
LoadFailsNoChannelCheck(f) ==
    \/ ~f.existsA
    \/ ~f.existsB
    \/ f.srA # f.srB

\* the checks of load_wavs that end in sys.exit(1)
LoadFails(f) ==
    \/ ~f.existsA
    \/ ~f.existsB
    \/ f.srA # f.srB
    \/ f.chA # f.chB

\* load_wavs, for files that pass its checks, ends in the uncaught ValueError
\* of normalize_peak: --normalize with a file of no frames
LoadRaises(f) ==
    /\ f.normalize
    /\ Min(f.lenA, f.lenB) = 0

\* variant: only audio_a is truncated
LoadBuffersKeepB(f) ==
    LET audio_a == ReadA(f.lenA)
        audio_b == ReadB(f.lenB)
        min_len == Min(Len(audio_a), Len(audio_b))
        cut_a == PySlice(audio_a, 0, min_len)
    IN  IF LoadRaises(f) THEN ValueError
        ELSE IF f.normalize
        THEN <<normalize_peak(cut_a), normalize_peak(audio_b)>>
        ELSE <<cut_a, audio_b>>

\* the buffers load_wavs returns for files it accepts, or the ValueError it
\* raises
LoadBuffers(f) ==
    LET audio_a == ReadA(f.lenA)
        audio_b == ReadB(f.lenB)
        min_len == Min(Len(audio_a), Len(audio_b))
        cut_a == PySlice(audio_a, 0, min_len)
        cut_b == PySlice(audio_b, 0, min_len)
    IN  IF LoadRaises(f) THEN ValueError
        ELSE IF f.normalize
        THEN <<normalize_peak(cut_a), normalize_peak(cut_b)>>
        ELSE <<cut_a, cut_b>>

\* main(): load_wavs exits with status 1
LoadExit ==
    /\ mpc = "load"
    /\ LoadFails(files)
    /\ exitCode' = 1
    /\ mpc' = "exited"
    /\ UNCHANGED <<files, buffers, sr, channels, shared, lock, stream, raised, ui, cpc, cb>>

\* main(): load_wavs raises ValueError, which nothing catches: the process
\* ends with a traceback and status 1, before any stream exists
LoadCrash ==
    /\ mpc = "load"
    /\ ~LoadFails(files)
    /\ LoadRaises(files)
    /\ exitCode' = 1
    /\ mpc' = "exited"
    /\ UNCHANGED <<files, buffers, sr, channels, shared, lock, stream, raised, ui, cpc, cb>>

\* main(): load_wavs returns; buffers, state and callback are built
LoadOk ==
    /\ mpc = "load"
    /\ ~LoadFails(files)
    /\ ~LoadRaises(files)
    /\ buffers' = LoadBuffers(files)
    /\ sr' = files.srA
    /\ channels' = files.chA
    /\ mpc' = "open"
    /\ UNCHANGED <<files, shared, lock, stream, raised, exitCode, ui, cpc, cb>>

\* main(): sd.OutputStream(...) opens and starts the stream; curses.wrapper
\* is entered next
OpenStream ==
    /\ mpc = "open"
    /\ stream' = "active"
    /\ mpc' = "ui_init"
    /\ UNCHANGED <<loaded, shared, lock, raised, exitCode, ui, cpc, cb>>

\* main(): sd.OutputStream(...) raises PortAudioError
OpenFails ==
    /\ mpc = "open"
    /\ exitCode' = 1
    /\ mpc' = "exited"
    /\ UNCHANGED <<loaded, shared, lock, stream, raised, ui, cpc, cb>>

\* ---------------------------------------------------------------- run_ui
\* total_frames = len(buffers[0])
total_frames == Len(buffers[1])

\* max(0, state.pos - delta)
SeekBack(p, delta) == Max(0, p - delta)

\* variant: clamps to total_frames instead of total_frames - 1
SeekForwardToLength(p, delta, total) == Min(total, p + delta)

\* min(total_frames - 1, state.pos + delta)
SeekForward(p, delta, total) == Min(total - 1, p + delta)

\* 1 - state.active
Toggle(a) == 1 - a

\* variant: the TAB branch also rewinds
KeyPosTabRewinds(key, p) ==
    CASE key = KEY_LEFT  -> SeekBack(p, sr)
      [] key = KEY_RIGHT -> SeekForward(p, sr, total_frames)
      [] key = KEY_H     -> SeekBack(p, 5 * sr)
      [] key = KEY_L     -> SeekForward(p, 5 * sr, total_frames)
      [] key = KEY_TAB   -> 0
      [] OTHER           -> p

\* state.pos after the branch of the if/elif chain that key selects
KeyPos(key, p) ==
    CASE key = KEY_LEFT  -> SeekBack(p, sr)
      [] key = KEY_RIGHT -> SeekForward(p, sr, total_frames)
      [] key = KEY_H     -> SeekBack(p, 5 * sr)
      [] key = KEY_L     -> SeekForward(p, 5 * sr, total_frames)
      [] OTHER           -> p

\* "with state.lock:" can be entered
CanLock == lock = "free"

\* curses.wrapper sets the terminal up and calls run_ui, which hides the
\* cursor and sets the input timeout before its loop
UiInit ==
    /\ mpc = "ui_init"
    /\ mpc' = "loop"
    /\ UNCHANGED <<loaded, shared, lock, stream, raised, exitCode, ui, cpc, cb>>

\* the terminal cannot be set up, or curses.curs_set(0) raises curses.error:
\* run_ui is left before its loop, with quit still false
UiInitFails ==
    /\ mpc = "ui_init"
    /\ mpc' = "ui_error"
    /\ UNCHANGED <<loaded, shared, lock, stream, raised, exitCode, ui, cpc, cb>>

\* variant: the loop condition is always true
LoopCheckForever ==
    /\ mpc = "loop"
    /\ mpc' = "snap_lock"
    /\ UNCHANGED <<loaded, shared, lock, stream, raised, exitCode, ui, cpc, cb>>

\* "while not state.quit": the loop condition, read without the lock
LoopCheck ==
    /\ mpc = "loop"
    /\ mpc' = IF quit THEN "close" ELSE "snap_lock"
    /\ UNCHANGED <<loaded, shared, lock, stream, raised, exitCode, ui, cpc, cb>>

\* variant: the snapshot does not wait for the lock
SnapLockNoWait ==
    /\ mpc = "snap_lock"
    /\ lock' = "ui"
    /\ mpc' = "snap_active"
    /\ UNCHANGED <<loaded, shared, stream, raised, exitCode, ui, cpc, cb>>

\* "with state.lock:" of the snapshot
SnapLock ==
    /\ mpc = "snap_lock"
    /\ CanLock
    /\ lock' = "ui"
    /\ mpc' = "snap_active"
    /\ UNCHANGED <<loaded, shared, stream, raised, exitCode, ui, cpc, cb>>

\* active = state.active
SnapActive ==
    /\ mpc = "snap_active"
    /\ ui' = [ui EXCEPT !.active = active]
    /\ mpc' = "snap_paused"
    /\ UNCHANGED <<loaded, shared, lock, stream, raised, exitCode, cpc, cb>>

\* paused = state.paused
SnapPaused ==
    /\ mpc = "snap_paused"
    /\ ui' = [ui EXCEPT !.paused = paused]
    /\ mpc' = "snap_pos"
    /\ UNCHANGED <<loaded, shared, lock, stream, raised, exitCode, cpc, cb>>

\* pos = state.pos
SnapPos ==
    /\ mpc = "snap_pos"
    /\ ui' = [ui EXCEPT !.pos = pos]
    /\ mpc' = "snap_unlock"
    /\ UNCHANGED <<loaded, shared, lock, stream, raised, exitCode, cpc, cb>>

\* variant: the snapshot's lock is kept while the screen is drawn
SnapUnlockKeepsLock ==
    /\ mpc = "snap_unlock"
    /\ mpc' = "display"
    /\ UNCHANGED <<loaded, shared, lock, stream, raised, exitCode, ui, cpc, cb>>

\* the snapshot's "with" block is left
SnapUnlock ==
    /\ mpc = "snap_unlock"
    /\ lock' = "free"
    /\ mpc' = "display"
    /\ UNCHANGED <<loaded, shared, stream, raised, exitCode, ui, cpc, cb>>

\* the status screen is drawn from the snapshot and refreshed; the snapshot
\* is not read again afterwards
Display ==
    /\ mpc = "display"
    /\ ui' = NoUi
    /\ mpc' = "getch"
    /\ UNCHANGED <<loaded, shared, lock, stream, raised, exitCode, cpc, cb>>

\* stdscr.addstr raises curses.error (the text does not fit the window): the
\* exception leaves the loop and run_ui, whatever quit is
DisplayFails ==
    /\ mpc = "display"
    /\ ui' = NoUi
    /\ mpc' = "ui_error"
    /\ UNCHANGED <<loaded, shared, lock, stream, raised, exitCode, cpc, cb>>

\* the positions of run_ui at which a KeyboardInterrupt propagates; inside
\* getch it is swallowed by the bare "except:" and the key reads as -1
Interruptible == {"ui_init", "loop", "snap_lock", "snap_active", "snap_paused",
                  "snap_pos", "snap_unlock", "display", "mut_lock", "mutate",
                  "mut_unlock"}

\* positions of run_ui inside one of its "with state.lock:" blocks
UiCritical == {"snap_active", "snap_paused", "snap_pos", "snap_unlock",
               "mutate", "mut_unlock"}

\* SIGINT reaches the main thread in run_ui: KeyboardInterrupt propagates, a
\* "with state.lock:" block it passes releases the lock
Interrupt ==
    /\ mpc \in Interruptible
    /\ lock' = IF mpc \in UiCritical THEN "free" ELSE lock
    /\ ui' = NoUi
    /\ mpc' = "ui_interrupt"
    /\ UNCHANGED <<loaded, shared, stream, raised, exitCode, cpc, cb>>

\* key = stdscr.getch(); "continue" when no key arrived within the timeout
GetKey ==
    /\ mpc = "getch"
    /\ \E key \in Keys \cup {NO_KEY} :
        /\ ui' = [ui EXCEPT !.key = key]
        /\ mpc' = IF key = NO_KEY THEN "loop" ELSE "mut_lock"
    /\ UNCHANGED <<loaded, shared, lock, stream, raised, exitCode, cpc, cb>>

\* variant: the mutation does not wait for the lock
MutLockNoWait ==
    /\ mpc = "mut_lock"
    /\ lock' = "ui"
    /\ mpc' = "mutate"
    /\ UNCHANGED <<loaded, shared, stream, raised, exitCode, ui, cpc, cb>>

\* "with state.lock:" of the mutation
MutLock ==
    /\ mpc = "mut_lock"
    /\ CanLock
    /\ lock' = "ui"
    /\ mpc' = "mutate"
    /\ UNCHANGED <<loaded, shared, stream, raised, exitCode, ui, cpc, cb>>

\* the if/elif chain on key
Mutate ==
    /\ mpc = "mutate"
    /\ quit' = IF ui.key = KEY_Q THEN TRUE ELSE quit
    /\ paused' = IF ui.key = KEY_SPACE THEN ~paused ELSE paused
    /\ active' = IF ui.key = KEY_TAB THEN Toggle(active) ELSE active
    /\ pos' = KeyPos(ui.key, pos)
    /\ mpc' = "mut_unlock"
    /\ UNCHANGED <<loaded, lock, stream, raised, exitCode, ui, cpc, cb>>

\* the mutation's "with" block is left; the key is not read again
MutUnlock ==
    /\ mpc = "mut_unlock"
    /\ lock' = "free"
    /\ ui' = NoUi
    /\ mpc' = "loop"
    /\ UNCHANGED <<loaded, shared, stream, raised, exitCode, cpc, cb>>

\* main(): run_ui has returned; the OutputStream's "with" block is left, which
\* closes the stream once a running callback has finished; "Done." is printed
CloseStream ==
    /\ mpc = "close"
    /\ cpc = "idle"
    /\ stream' = "closed"
    /\ exitCode' = 0
    /\ mpc' = "exited"
    /\ UNCHANGED <<loaded, shared, lock, raised, ui, cpc, cb>>

\* main(): an exception leaves curses.wrapper; the OutputStream's "with" block
\* closes the stream once a running callback has finished, "except
\* sd.PortAudioError" does not match, and the process ends with a traceback
CloseOnError ==
    /\ mpc \in {"ui_error", "ui_interrupt"}
    /\ cpc = "idle"
    /\ stream' = "closed"
    /\ exitCode' = IF mpc = "ui_error" THEN 1 ELSE SIGINT_STATUS
    /\ mpc' = "exited"
    /\ UNCHANGED <<loaded, shared, lock, raised, ui, cpc, cb>>

\* ---------------------------------------------------------------- callback
\* buffers[i] for the 0-based selector i
BufferOf(i) == buffers[i + 1]

\* the device invokes callback(outdata, frames, ...) with a block to fill
CbInvoke ==
    /\ stream = "active"
    /\ cpc = "idle"
    /\ \E frames \in BlockSizes :
        cb' = [NoCb EXCEPT !.frames = frames,
                           !.outdata = [i \in 1..frames |-> Garbage]]
    /\ cpc' = "lock"
    /\ UNCHANGED <<loaded, shared, lock, stream, raised, exitCode, mpc, ui>>

\* variant: the callback does not wait for the lock
CbLockNoWait ==
    /\ cpc = "lock"
    /\ lock' = "cb"
    /\ cpc' = "chk_quit"
    /\ UNCHANGED <<loaded, shared, stream, raised, exitCode, mpc, ui, cb>>

\* "with state.lock:"
CbLock ==
    /\ cpc = "lock"
    /\ CanLock
    /\ lock' = "cb"
    /\ cpc' = "chk_quit"
    /\ UNCHANGED <<loaded, shared, stream, raised, exitCode, mpc, ui, cb>>

\* variant: the callback does not look at state.quit
CbCheckQuitIgnored ==
    /\ cpc = "chk_quit"
    /\ cpc' = "chk_paused"
    /\ UNCHANGED <<loaded, shared, lock, stream, raised, exitCode, mpc, ui, cb>>

\* variant: paused is looked at before quit
CbCheckQuitAfterPaused ==
    /\ cpc = "chk_quit"
    /\ IF paused
       THEN /\ cpc' = "chk_paused"
            /\ UNCHANGED raised
       ELSE IF quit
            THEN /\ raised' = "CallbackAbort"
                 /\ cpc' = "unwind"
            ELSE /\ cpc' = "chk_paused"
                 /\ UNCHANGED raised
    /\ UNCHANGED <<loaded, shared, lock, stream, exitCode, mpc, ui, cb>>

\* if state.quit: raise sd.CallbackAbort()
CbCheckQuit ==
    /\ cpc = "chk_quit"
    /\ IF quit
       THEN /\ raised' = "CallbackAbort"
            /\ cpc' = "unwind"
       ELSE /\ cpc' = "chk_paused"
            /\ UNCHANGED raised
    /\ UNCHANGED <<loaded, shared, lock, stream, exitCode, mpc, ui, cb>>

\* variant: a paused callback returns without filling the block
CbCheckPausedNoFill ==
    /\ cpc = "chk_paused"
    /\ cpc' = IF paused THEN "return" ELSE "read_buf"
    /\ UNCHANGED <<loaded, shared, lock, stream, raised, exitCode, mpc, ui, cb>>

\* variant: the callback plays on although paused is set
CbCheckPausedIgnored ==
    /\ cpc = "chk_paused"
    /\ cpc' = "read_buf"
    /\ UNCHANGED <<loaded, shared, lock, stream, raised, exitCode, mpc, ui, cb>>

\* if state.paused: outdata.fill(0); return
CbCheckPaused ==
    /\ cpc = "chk_paused"
    /\ IF paused
       THEN /\ cb' = [cb EXCEPT !.outdata = FillZero(cb.outdata)]
            /\ cpc' = "return"
       ELSE /\ cpc' = "read_buf"
            /\ UNCHANGED cb
    /\ UNCHANGED <<loaded, shared, lock, stream, raised, exitCode, mpc, ui>>

\* buf = buffers[state.active]
CbReadBuf ==
    /\ cpc = "read_buf"
    /\ cb' = [cb EXCEPT !.buf = active]
    /\ cpc' = "read_start"
    /\ UNCHANGED <<loaded, shared, lock, stream, raised, exitCode, mpc, ui>>

\* start = state.pos
CbReadStart ==
    /\ cpc = "read_start"
    /\ cb' = [cb EXCEPT !.start = pos]
    /\ cpc' = "calc_end"
    /\ UNCHANGED <<loaded, shared, lock, stream, raised, exitCode, mpc, ui>>

\* min(start + frames, len(buf))
EndOf(start, frames, buflen) == Min(start + frames, buflen)

\* end = min(start + frames, len(buf)); length = end - start
CbCalcEnd ==
    /\ cpc = "calc_end"
    /\ LET end == EndOf(cb.start, cb.frames, Len(BufferOf(cb.buf)))
       IN  cb' = [cb EXCEPT !.end = end, !.length = end - cb.start]
    /\ cpc' = "copy"
    /\ UNCHANGED <<loaded, shared, lock, stream, raised, exitCode, mpc, ui>>

\* if length > 0: outdata[:length] = buf[start:end]
\* numpy raises ValueError when the two shapes do not match
CbCopy ==
    /\ cpc = "copy"
    /\ IF cb.length > 0
       THEN LET src == PySlice(BufferOf(cb.buf), cb.start, cb.end)
            IN  IF CanAssign(cb.outdata, 0, cb.length, src)
                THEN /\ cb' = [cb EXCEPT !.outdata =
                                   SliceAssign(cb.outdata, 0, cb.length, src)]
                     /\ cpc' = "advance"
                     /\ UNCHANGED raised
                ELSE /\ raised' = "ValueError"
                     /\ cpc' = "unwind"
                     /\ UNCHANGED cb
       ELSE /\ cpc' = "zero"
            /\ UNCHANGED <<cb, raised>>
    /\ UNCHANGED <<loaded, shared, lock, stream, exitCode, mpc, ui>>

\* state.pos = end
CbAdvance ==
    /\ cpc = "advance"
    /\ pos' = cb.end
    /\ cpc' = "zero"
    /\ UNCHANGED <<loaded, active, paused, quit, lock, stream, raised, exitCode,
                   mpc, ui, cb>>

\* if length < frames: outdata[length:] = 0
CbZero ==
    /\ cpc = "zero"
    /\ IF cb.length < cb.frames
       THEN /\ cb' = [cb EXCEPT !.outdata = ZeroFrom(cb.outdata, cb.length)]
            /\ cpc' = "set_paused"
       ELSE /\ cpc' = "return"
            /\ UNCHANGED cb
    /\ UNCHANGED <<loaded, shared, lock, stream, raised, exitCode, mpc, ui>>

\* state.paused = True
CbSetPaused ==
    /\ cpc = "set_paused"
    /\ paused' = TRUE
    /\ cpc' = "rewind"
    /\ UNCHANGED <<loaded, active, pos, quit, lock, stream, raised, exitCode,
                   mpc, ui, cb>>

\* variant: the rewind also selects buffer A again
CbRewindSelectsA ==
    /\ cpc = "rewind"
    /\ pos' = 0
    /\ active' = 0
    /\ cpc' = "return"
    /\ UNCHANGED <<loaded, paused, quit, lock, stream, raised, exitCode,
                   mpc, ui, cb>>

\* state.pos = 0
CbRewind ==
    /\ cpc = "rewind"
    /\ pos' = 0
    /\ cpc' = "return"
    /\ UNCHANGED <<loaded, active, paused, quit, lock, stream, raised, exitCode,
                   mpc, ui, cb>>

\* the "with" block is left and callback returns: the device takes the block
CbReturn ==
    /\ cpc = "return"
    /\ lock' = "free"
    /\ cb' = NoCb
    /\ cpc' = "idle"
    /\ UNCHANGED <<loaded, shared, stream, raised, exitCode, mpc, ui>>

\* variant: an exception leaves callback with the lock still held
CbUnwindKeepsLock ==
    /\ cpc = "unwind"
    /\ stream' = "aborted"
    /\ cb' = NoCb
    /\ cpc' = "idle"
    /\ UNCHANGED <<loaded, shared, lock, raised, exitCode, mpc, ui>>

\* an exception leaves the "with" block and callback: the lock is released
\* and the stream stops invoking the callback
CbUnwind ==
    /\ cpc = "unwind"
    /\ lock' = "free"
    /\ stream' = "aborted"
    /\ cb' = NoCb
    /\ cpc' = "idle"
    /\ UNCHANGED <<loaded, shared, raised, exitCode, mpc, ui>>

\* ---------------------------------------------------------------- threads
Main ==
    \/ LoadExit
    \/ LoadCrash
    \/ LoadOk
    \/ OpenStream
    \/ OpenFails
    \/ UiInit
    \/ UiInitFails
    \/ LoopCheck
    \/ SnapLock
    \/ SnapActive
    \/ SnapPaused
    \/ SnapPos
    \/ SnapUnlock
    \/ Display
    \/ DisplayFails
    \/ Interrupt
    \/ GetKey
    \/ MutLock
    \/ Mutate
    \/ MutUnlock
    \/ CloseStream
    \/ CloseOnError

Audio ==
    \/ CbInvoke
    \/ CbLock
    \/ CbCheckQuit
    \/ CbCheckPaused
    \/ CbReadBuf
    \/ CbReadStart
    \/ CbCalcEnd
    \/ CbCopy
    \/ CbAdvance
    \/ CbZero
    \/ CbSetPaused
    \/ CbRewind
    \/ CbReturn
    \/ CbUnwind

Next == Main \/ Audio

Spec == Init /\ [][Next]_vars

\* both threads keep running: the main thread is scheduled by the OS, the
\* audio thread by the device
FairSpec == Spec /\ WF_vars(Main) /\ WF_vars(Audio)

TypeOK ==
    /\ active \in {0, 1}
    /\ paused \in BOOLEAN
    /\ quit \in BOOLEAN
    /\ pos \in Int
    /\ lock \in {"free", "ui", "cb"}
    /\ stream \in {"none", "active", "aborted", "closed"}
    /\ raised \in {"none", "CallbackAbort", "ValueError"}
    /\ exitCode \in {Null, 0, 1, SIGINT_STATUS}

\* ================================================================ properties
\* the step of run_ui that applies the key to the state
MutateStep == mpc = "mutate" /\ mpc' = "mut_unlock"

SeekKeys == {KEY_LEFT, KEY_RIGHT, KEY_H, KEY_L}

Clamp(x, lo, hi) == Max(lo, Min(hi, x))

\* C1: the TAB mutation sets active to 1 - active and leaves pos, paused and
\* quit as they are; pos does not change at any step taken while the main
\* thread holds the lock for a TAB key, so pos after the critical section
\* equals pos before it.
C1_ToggleKeepsPosition ==
    [][ /\ (MutateStep /\ ui.key = KEY_TAB) =>
             /\ active' = 1 - active
             /\ pos' = pos
             /\ paused' = paused
             /\ quit' = quit
        /\ (lock = "ui" /\ ui.key = KEY_TAB) =>
             /\ pos' = pos
             /\ paused' = paused
             /\ quit' = quit ]_vars

\* a toggle to B has been applied at a position past the start
C1_Witness ==
    /\ mpc = "mut_unlock"
    /\ ui.key = KEY_TAB
    /\ active = 1
    /\ pos > 0

\* C2: with at least one frame loaded, a seek key sets pos to
\* clamp(pos -/+ delta, 0, total_frames - 1), delta being sr for LEFT/RIGHT and
\* 5 * sr for H/L, so the result lies in 0 .. total_frames - 1.
C2_SeekClamps ==
    [][ (MutateStep /\ ui.key \in SeekKeys /\ total_frames >= 1) =>
          LET delta == IF ui.key \in {KEY_LEFT, KEY_RIGHT} THEN sr ELSE 5 * sr
              want  == IF ui.key \in {KEY_LEFT, KEY_H} THEN pos - delta
                                                       ELSE pos + delta
          IN  /\ pos' = Clamp(want, 0, total_frames - 1)
              /\ pos' >= 0
              /\ pos' <= total_frames - 1 ]_vars

\* a forward seek of 5 s on a buffer shorter than 5 s has ended on the last frame
C2_Witness ==
    /\ mpc = "mut_unlock"
    /\ ui.key = KEY_L
    /\ total_frames >= 2
    /\ 5 * sr >= total_frames
    /\ pos = total_frames - 1

\* a backward seek is about to be applied with pos left at total_frames by the
\* callback
C2_SeekFromEnd ==
    /\ mpc = "mutate"
    /\ ui.key \in {KEY_LEFT, KEY_H}
    /\ total_frames >= 1
    /\ pos = total_frames

\* C3: 0 <= pos <= total_frames in every state, for every pair of files that
\* load_wavs accepts.
C3_PositionInRange ==
    sr # Null => (0 <= pos /\ pos <= total_frames)

\* the step in which an invocation of callback ends, by return or by exception
CbFinishStep == cpc \in {"return", "unwind"} /\ cpc' = "idle"

\* the block a callback must have written when it read position start of
\* buffer b and was asked for frames frames: what is left of the buffer, then
\* silence
RestThenSilence(b, start, frames) ==
    [i \in 1..frames |-> IF start + i <= Len(b) THEN b[start + i] ELSE Zero]

\* C4: a callback that runs with quit and paused false and with
\* pos + frames > total_frames ends with the block holding the remaining frames
\* of the active buffer followed by zeros, with paused true and pos 0, and with
\* active and quit unchanged.
C4_EndOfBuffer ==
    [][ (CbFinishStep /\ cb.start # Null /\ cb.start + cb.frames > total_frames) =>
          /\ paused' = TRUE
          /\ pos' = 0
          /\ quit' = FALSE
          /\ active' = cb.buf
          /\ cb.outdata = RestThenSilence(BufferOf(cb.buf), cb.start, cb.frames) ]_vars

\* positions of callback inside its "with state.lock:" block
CbCritical == {"chk_quit", "chk_paused", "read_buf", "read_start", "calc_end",
               "copy", "advance", "zero", "set_paused", "rewind", "return",
               "unwind"}

\* C5: a callback invocation is atomic with respect to the mutations of
\* run_ui.  While it is inside its critical section run_ui is inside none; when
\* it returns after playing, the block holds frames start .. start+length-1 of
\* the one buffer that active selected (then as now) followed by silence, and
\* pos and paused are what that same start and length give: pos = end and
\* still playing after a full block, pos = 0 and paused after a short one.
C5_TickAtomic ==
    /\ cpc \in CbCritical => (lock = "cb" /\ mpc \notin UiCritical)
    /\ (cpc = "return" /\ cb.start # Null) =>
          /\ cb.buf = active
          /\ cb.end = cb.start + cb.length
          /\ cb.outdata = RestThenSilence(
                 SubSeq(BufferOf(cb.buf), 1, cb.end), cb.start, cb.frames)
          /\ quit = FALSE
          /\ paused = (cb.length < cb.frames)
          /\ pos = IF cb.length < cb.frames THEN 0 ELSE cb.end

\* a callback returns a block taken from B at a position past the start, cut
\* short by the end of the buffer
C5_Witness ==
    /\ cpc = "return"
    /\ cb.buf = 1
    /\ cb.start > 0
    /\ cb.length > 0
    /\ cb.length < cb.frames

\* C6: a mutation is never applied while a callback is between reading the
\* state and using it, and a callback keeps nothing from one invocation to the
\* next: the selector and the position a callback works with are the values
\* the state holds, so every callback that enters its critical section after
\* a toggle or seek has left its own plays the new buffer from the new position.
C6_NoStaleTick ==
    /\ mpc \in {"mutate", "mut_unlock"} =>
          (cpc \in {"idle", "lock"} /\ cb.buf = Null /\ cb.start = Null)
    /\ cpc \in {"idle", "lock", "chk_quit", "chk_paused", "read_buf"} =>
          (cb.buf = Null /\ cb.start = Null)
    /\ cpc \in {"read_start", "calc_end", "copy"} => cb.buf = active
    /\ cpc \in {"calc_end", "copy"} => cb.start = pos

\* a callback is about to copy from B at a position past the start while the
\* main thread, having toggled, is waiting to take its next snapshot
C6_Witness ==
    /\ cpc = "copy"
    /\ cb.buf = 1
    /\ cb.start > 0
    /\ mpc = "snap_lock"

\* the main thread is past the loop of run_ui
LoopLeft == {"close", "ui_error", "ui_interrupt", "exited"}

\* C7: the condition of run_ui's loop ends the loop exactly when it reads quit
\* as true, and while quit is false the loop is left only by an exception
\* passing through it (curses.error, KeyboardInterrupt), never with status 0;
\* once quit is true the main thread applies no further mutation; and with both
\* threads scheduled fairly, quit being true leads to the loop being left.
C7_LoopExit ==
    /\ [][ (mpc = "loop" /\ mpc' \notin {"loop", "ui_interrupt"}) =>
             (IF quit THEN mpc' = "close" ELSE mpc' = "snap_lock") ]_vars
    /\ [](mpc = "close" => quit)
    /\ []((sr # Null /\ exitCode = 0) => quit)
    /\ [](quit => mpc \in ({"mut_unlock", "loop"} \cup LoopLeft))
    /\ (quit ~> mpc \in LoopLeft)

\* the loop has been left after a quit key
C7_Witness ==
    /\ mpc = "close"
    /\ quit

\* C8 as stated: when the stream has been torn down, a callback has seen quit
\* and raised CallbackAbort before.
C8_RenderSeesQuitBeforeTeardown ==
    stream = "closed" => raised = "CallbackAbort"

\* C8 amended: the stream is closed by the main thread on its way out, which
\* in a normal exit is after the loop of run_ui has seen quit; a callback
\* raises CallbackAbort only when it sees quit; and no callback gets past its
\* quit check while quit is true.
C8_QuitAbortsTick ==
    /\ stream = "closed" => (mpc = "exited" /\ cpc = "idle")
    /\ (stream = "closed" /\ ~quit) => exitCode # 0
    /\ raised = "CallbackAbort" => quit
    /\ cpc \in (CbCritical \ {"chk_quit", "unwind"}) => ~quit
    /\ (cpc = "unwind" /\ quit) => raised = "CallbackAbort"

\* a callback has seen quit and aborted, and the stream was then torn down
C8_Witness ==
    /\ stream = "closed"
    /\ raised = "CallbackAbort"
    /\ exitCode = 0

\* the files fail one of the checks of load_wavs
InvalidFiles ==
    \/ ~files.existsA
    \/ ~files.existsB
    \/ files.srA # files.srB
    \/ files.chA # files.chB

\* C9: when a file is missing or the sample rates or channel counts differ,
\* the only step taken is the exit with status 1: no stream is opened, no
\* callback is invoked and run_ui is not entered.
C9_LoadFailureIsFatal ==
    InvalidFiles =>
        /\ mpc \in {"load", "exited"}
        /\ mpc = "exited" => exitCode = 1
        /\ stream = "none"
        /\ cpc = "idle"
        /\ cb = NoCb
        /\ raised = "none"
        /\ sr = Null

\* the program has exited with status 1 on files that differ in channel count only
C9_Witness ==
    /\ files.existsA
    /\ files.existsB
    /\ files.srA = files.srB
    /\ files.chA # files.chB
    /\ mpc = "exited"
    /\ exitCode = 1

\* C10: after a load without normalisation both buffers have
\* min(lenA, lenB) frames, each the unchanged head of its file.
C10_TruncateToShorter ==
    (sr # Null /\ ~files.normalize) =>
        LET n == Min(files.lenA, files.lenB)
        IN  /\ Len(buffers[1]) = n
            /\ Len(buffers[2]) = n
            /\ total_frames = n
            /\ \A i \in 1..n : buffers[1][i] = Rat[ContentA[i], 1000]
            /\ \A i \in 1..n : buffers[2][i] = Rat[ContentB[i], 1000]

\* files of different, non-zero lengths have been loaded without normalisation,
\* B being the longer one
C10_Witness ==
    /\ sr # Null
    /\ ~files.normalize
    /\ files.lenA >= 1
    /\ files.lenB > files.lenA
    /\ Len(buffers[2]) = files.lenA

\* positions of run_ui whose next step reads or writes a field of the state
UiAccess == {"loop", "snap_active", "snap_paused", "snap_pos", "mutate"}

\* positions of callback whose next step reads or writes a field of the state
CbAccess == {"chk_quit", "chk_paused", "read_buf", "read_start", "advance",
             "set_paused", "rewind"}

\* C11: every read or write of active, paused, pos or quit, by either thread,
\* the read of quit in the loop condition included, is made by a thread that
\* holds the lock.
C11_AccessUnderLock ==
    /\ mpc \in UiAccess => lock = "ui"
    /\ cpc \in CbAccess => lock = "cb"

\* C12: the callback cannot fault.  It never raises anything but the abort on
\* quit, and when it is about to copy, 0 <= start <= end <= total_frames, the
\* length is within 0 .. frames, and the rows read are as many as the rows
\* written.
C12_CallbackCannotFault ==
    /\ raised # "ValueError"
    /\ cpc = "copy" =>
          /\ 0 <= cb.start
          /\ cb.start <= cb.end
          /\ cb.end <= total_frames
          /\ 0 <= cb.length
          /\ cb.length <= cb.frames
          /\ Len(PySlice(BufferOf(cb.buf), cb.start, cb.end))
                = SliceLen(cb.outdata, 0, cb.length)

\* C13: a callback that runs with quit and paused false copies exactly
\* n = min(frames, total_frames - pos) frames of the active buffer from pos on,
\* and ends with pos advanced by n and still playing when n = frames, or with
\* paused true and pos 0 when n < frames.
C13_CopyExactlyN ==
    [][ (CbFinishStep /\ cb.start # Null) =>
          LET n == Min(cb.frames, total_frames - cb.start)
          IN  /\ pos' = IF n < cb.frames THEN 0 ELSE cb.start + n
              /\ paused' = (n < cb.frames)
              /\ cb.length = n
              /\ cb.outdata = RestThenSilence(BufferOf(cb.buf), cb.start, cb.frames)
      ]_vars

\* a block of n frames of silence
Silence(n) == [i \in 1..n |-> Zero]

\* a block of n frames the callback has not touched
Untouched(n) == [i \in 1..n |-> Garbage]

\* C14: a callback that runs with quit false and paused true fills the whole
\* block with silence and returns, and none of its steps changes active,
\* paused, pos or quit: pos does not advance while paused.
C14_PausedTickIsSilent ==
    [][ /\ (cpc = "chk_paused" /\ paused) =>
             /\ cpc' # cpc => (cpc' = "return" /\ cb'.outdata = Silence(cb.frames))
             /\ UNCHANGED shared
        /\ (cpc = "return" /\ cb.start = Null) =>
             /\ cb.outdata = Silence(cb.frames)
             /\ paused
             /\ cpc' # cpc => (cpc' = "idle" /\ lock' = "free")
             /\ UNCHANGED shared ]_vars

\* a paused callback is about to return its block at a position past the start
C14_Witness ==
    /\ cpc = "return"
    /\ cb.start = Null
    /\ cb.frames = MaxBlock
    /\ paused
    /\ pos > 0

\* C15: a callback that runs with quit true raises CallbackAbort at its first
\* check, whatever paused and pos are; it writes no frame of the block, reads
\* no buffer and changes no field of the state, and the stream is aborted.
C15_QuitTickAborts ==
    [][ /\ (cpc = "chk_quit" /\ quit) =>
             /\ cpc' # cpc => (cpc' = "unwind" /\ raised' = "CallbackAbort")
             /\ cb' = cb
             /\ UNCHANGED shared
        /\ (cpc = "unwind" /\ quit) =>
             /\ cb.outdata = Untouched(cb.frames)
             /\ cb.buf = Null
             /\ cb.start = Null
             /\ cpc' # cpc => (cpc' = "idle" /\ stream' = "aborted")
             /\ UNCHANGED shared ]_vars

\* a callback has aborted on quit although the state was paused
C15_Witness ==
    /\ cpc = "unwind"
    /\ raised = "CallbackAbort"
    /\ quit
    /\ paused

\* C16: the snapshot of run_ui is atomic: each field already read equals the
\* field of the state for as long as the snapshot's critical section lasts, so
\* at its end the triple (active, paused, pos) is the state of one instant.
C16_SnapshotAtomic ==
    /\ mpc \in {"snap_paused", "snap_pos", "snap_unlock"} => ui.active = active
    /\ mpc \in {"snap_pos", "snap_unlock"} => ui.paused = paused
    /\ mpc = "snap_unlock" => ui.pos = pos
    /\ mpc \in {"snap_active", "snap_paused", "snap_pos", "snap_unlock"} =>
          cpc \notin CbCritical

\* a snapshot of B playing past the start is complete while a callback waits
\* for the lock
C16_Witness ==
    /\ mpc = "snap_unlock"
    /\ ui.active = 1
    /\ ~ui.paused
    /\ ui.pos > 0
    /\ cpc = "lock"

\* C17: the main thread holds the lock only inside the snapshot read and
\* inside the mutation: never while it draws and refreshes the screen, waits
\* in getch, or evaluates the loop condition; so a callback can take the lock
\* while the main thread is at any of these.
C17_NoLockAcrossIO ==
    /\ lock = "ui" => mpc \in UiCritical
    /\ mpc \in {"ui_init", "loop", "snap_lock", "display", "getch", "mut_lock",
                "close", "ui_error", "ui_interrupt", "exited"} => lock # "ui"
    /\ mpc \in {"snap_unlock", "mut_unlock"} => lock = "ui"

\* a callback holds the lock while the main thread waits for a key
C17_Witness ==
    /\ mpc = "getch"
    /\ lock = "cb"
    /\ cpc = "copy"

\* a step of the audio thread
CbStep == cpc' # cpc

\* C18: active changes only in the TAB mutation of run_ui and quit only in
\* its Q mutation; a step of the callback never changes active or quit,
\* changes pos only to advance it to end or to rewind it to 0, and changes
\* paused only to set it at the end of the buffer.
C18_WriterSeparation ==
    [][ /\ active' # active => (MutateStep /\ ui.key = KEY_TAB)
        /\ quit' # quit => (MutateStep /\ ui.key = KEY_Q)
        /\ CbStep => (active' = active /\ quit' = quit)
        /\ (CbStep /\ pos' # pos) =>
             \/ (cpc = "advance" /\ pos' = cb.end)
             \/ (cpc = "rewind" /\ cb.length < cb.frames /\ pos' = 0)
        /\ (CbStep /\ paused' # paused) =>
             (cpc = "set_paused" /\ cb.length < cb.frames /\ paused') ]_vars

\* a callback has paused and rewound at the end of B, and B is still selected
C18_Witness ==
    /\ cpc = "return"
    /\ cb.start > 0
    /\ cb.buf = 1
    /\ active = 1
    /\ paused
    /\ pos = 0

\* C19: once quit is true it stays true, and active, paused and pos keep the
\* values they had: no step taken with quit true changes any field.
C19_QuitFreezesState ==
    [][ quit => (quit' /\ active' = active /\ paused' = paused /\ pos' = pos) ]_vars

\* a callback runs after quit was set in mid-playback of B
C19_Witness ==
    /\ quit
    /\ ~paused
    /\ active = 1
    /\ pos > 0
    /\ cpc = "chk_quit"

\* C20: the lock is held exactly while a thread is inside one of its "with"
\* blocks, whichever way the block is left (abort on quit, return when paused,
\* normal return, exception, unmapped key); and with both threads scheduled
\* fairly a held lock is always released again.
C20_LockAlwaysReleased ==
    /\ [](lock = "cb" <=> cpc \in CbCritical)
    /\ [](lock = "ui" <=> mpc \in UiCritical)
    /\ [](~(cpc \in CbCritical /\ mpc \in UiCritical))
    /\ []<>(lock = "free")

\* the callback has left its block by CallbackAbort and the lock is free while
\* the main thread has not yet looked at quit again
C20_Witness ==
    /\ raised = "CallbackAbort"
    /\ stream = "aborted"
    /\ cpc = "idle"
    /\ lock = "free"

\* C21: the audio thread never resumes playback.  paused goes from true to
\* false only in the SPACE mutation of run_ui, which keeps pos and active; while
\* paused is true no step of the callback changes pos, except the rewind to 0
\* that completes the auto-pause, and pos changes only by that rewind or by a
\* seek; so after an auto-pause pos stays 0 until a mutation, and the SPACE
\* that follows restarts at frame 0 of the buffer active selects unless a seek
\* came first.
C21_RenderNeverResumes ==
    [][ /\ (paused /\ ~paused') =>
             (MutateStep /\ ui.key = KEY_SPACE)
        /\ (MutateStep /\ ui.key = KEY_SPACE) =>
             (paused' = ~paused /\ pos' = pos /\ active' = active)
        /\ CbStep => (paused => paused')
        /\ (CbStep /\ cpc = "rewind") =>
             (paused /\ paused' /\ pos' = 0)
        /\ (paused /\ pos' # pos) =>
             \/ (CbStep /\ cpc = "rewind" /\ pos' = 0)
             \/ (MutateStep /\ ui.key \in SeekKeys)
        /\ (CbStep /\ paused /\ cpc = "return") =>
             (cb.start = Null => cb.outdata = Silence(cb.frames)) ]_vars

\* a callback has paused and rewound at the end of the buffer, and a SPACE key
\* is waiting for the lock to restart playback
C21_Witness ==
    /\ cpc = "return"
    /\ cb.start # Null
    /\ cb.length < cb.frames
    /\ paused
    /\ pos = 0
    /\ mpc = "mut_lock"
    /\ ui.key = KEY_SPACE

====
